---- MODULE Spec2Model ----
(***************************************************************************)
(* DrumHelper playback core: SongManager (play / pause / stop / tick),     *)
(* the parts of AudioManager it consumes (subdivision table, click choice, *)
(* announcement toggles) and the event handlers of script.js that drive    *)
(* them.  The browser's timer queue (setInterval handles, setTimeout       *)
(* callbacks) and the suspended part of the async play() are explicit      *)
(* state, so that handlers interleave as the event loop lets them.         *)
(* StorageManager's song collection (save, delete, import) is modelled     *)
(* beside it.                                                              *)
(***************************************************************************)
EXTENDS Integers, Sequences, FiniteSets, TLC

\* ------------------------------------------------------------------ bounds
MaxPending == 2        \* play() calls awaiting audio + delayed restarts in flight
MaxTimers == 2         \* setInterval handles alive at once
MaxSections == 2       \* sections of a song
MaxMeasures == 4       \* measures of a section
MaxIds == 3            \* ids a stored song can have
MaxImport == 2         \* songs of an imported file

\* ------------------------------------------------------- program constants
MinTempo == 60
MaxTempo == 200
BeatsPerMeasure == 4
MeasuresFloor == 1
MeasuresCeiling == 32
MsPerMinute == 60000

VARIABLES
    \* SongManager
    isPlaying, currentSection, currentMeasure, currentBeat, currentSubdivision,
    intervalId, tempo, sections, songTitle, subdivision,
    \* AudioManager
    amSubdivision, voiceEnabled, measureAnnouncementEnabled, metronomeEnabled,
    \* the composer form (DOM) read by UIManager.getFormData
    form,
    \* the event loop
    timers,            \* active setInterval handles: handle -> period
    pendingPlays,      \* play() calls suspended at `await resumeAudioContext()`
    pendingRestarts,   \* setTimeout(() => play(), 100) callbacks not yet run
    \* StorageManager
    savedSongs,        \* the in-memory collection: id -> stored song
    storageAvailable,  \* localStorage passed the constructor's probe
    writeFails,        \* localStorage.setItem throws (quota exceeded)
    localStorage,      \* what the 'drumhelper-songs' key holds
    \* observation
    stOp,              \* the StorageManager method that ran last, and what it returned
    lastOp,            \* the handler that ran last, and what it emitted
    halted,            \* stop()/pause() was commanded and no play command since
    resumeFrom,        \* position held when the user paused, until the next tick
    lookAheads,        \* look-ahead announcements since the current section was entered
    run                \* record of the current uninterrupted playback from the origin

posVars == <<currentSection, currentMeasure, currentBeat, currentSubdivision>>
songVars == <<tempo, sections, songTitle, subdivision>>
audioVars == <<amSubdivision, voiceEnabled, measureAnnouncementEnabled, metronomeEnabled>>
loopVars == <<timers, pendingPlays, pendingRestarts>>
obsVars == <<lastOp, halted, resumeFrom, lookAheads, run>>
playVars == <<isPlaying, posVars, intervalId, songVars, audioVars, form, loopVars, obsVars>>
stVars == <<savedSongs, storageAvailable, writeFails, localStorage, stOp>>
vars == <<playVars, stVars>>

\* ------------------------------------------------------------- AudioManager
Kinds == {"quarter", "eighth", "sixteenth", "triplet"}

subdivisionSettings ==
    [k \in Kinds |->
        CASE k = "quarter"   -> [multiplier |-> 1, clicksPerBeat |-> 1, accent |-> {0}]
          [] k = "eighth"    -> [multiplier |-> 2, clicksPerBeat |-> 2, accent |-> {0}]
          [] k = "sixteenth" -> [multiplier |-> 4, clicksPerBeat |-> 4, accent |-> {0}]
          [] k = "triplet"   -> [multiplier |-> 3, clicksPerBeat |-> 3, accent |-> {0}]]

getSubdivisionSettings == subdivisionSettings[amSubdivision]

\* beatInterval / multiplier as the exact fraction 60000 / (tempo * multiplier)
getSubdivisionInterval(t) ==
    [num |-> MsPerMinute, den |-> t * subdivisionSettings[amSubdivision].multiplier]

\* a click choice that takes every first subdivision of a beat for a downbeat
playSubdivisionClickEveryBeat(subdivisionIndex, isDownbeat) ==
    IF ~metronomeEnabled THEN "none"
    ELSE IF subdivisionIndex = 0 THEN "downbeat"
    ELSE IF amSubdivision = "quarter"
            \/ subdivisionIndex \in subdivisionSettings[amSubdivision].accent THEN "beat"
    ELSE "soft"

\* a click choice without the quarter-note case
playSubdivisionClickAccentOnly(subdivisionIndex, isDownbeat) ==
    IF ~metronomeEnabled THEN "none"
    ELSE IF isDownbeat THEN "downbeat"
    ELSE IF subdivisionIndex \in subdivisionSettings[amSubdivision].accent THEN "beat"
    ELSE "soft"

\* which sound playSubdivisionClick produces
playSubdivisionClick(subdivisionIndex, isDownbeat) ==
    IF ~metronomeEnabled THEN "none"
    ELSE IF isDownbeat THEN "downbeat"
    ELSE IF amSubdivision = "quarter"
            \/ subdivisionIndex \in subdivisionSettings[amSubdivision].accent THEN "beat"
    ELSE "soft"

\* -------------------------------------------------------------------- Utils
Min(a, b) == IF a < b THEN a ELSE b
Max(a, b) == IF a > b THEN a ELSE b

\* a clamp that forgets the upper limit
validateTempoNoCap(t) == Max(t, MinTempo)

\* the argument is an integer here (parseInt of a numeric value), so the
\* isNaN branch of the source is not taken
validateTempo(t) == Min(Max(t, MinTempo), MaxTempo)

\* a measure count that is only capped from above
validateMeasuresNoFloor(m) == Min(m, MeasuresCeiling)

\* the argument is an integer here, as for validateTempo
validateMeasures(m) == Min(Max(m, MeasuresFloor), MeasuresCeiling)

\* the titles of the model are "", "Song" and "<>": the markup characters are
\* removed, which leaves "<>" empty
sanitizeInput(input) == IF input = "<>" THEN "" ELSE input

\* Date.now() followed by nine random characters: an id that is not in `taken`
\* (the ids of the stored songs and the keys of a file being imported)
Ids == 1..MaxIds
NoId == 0
generateId(taken) == CHOOSE i \in Ids \ taken : \A j \in Ids \ taken : i <= j

\* ---------------------------------------------------------------- UIManager
\* sections are modelled by their measure counts; a section is named by its index
getFormData ==
    [title |-> form.title, tempo |-> validateTempo(form.tempo),
     subdivision |-> form.subdivision, sections |-> form.sections]

\* --------------------------------------------------------------- event loop
Null == 0
Handles == 1..MaxTimers
FreshHandle == CHOOSE h \in Handles : h \notin DOMAIN timers /\ \A g \in 1..(h-1) : g \in DOMAIN timers
setInterval(period) == timers @@ (FreshHandle :> period)
clearInterval(h) == [g \in (DOMAIN timers) \ {h} |-> timers[g]]
Pending == pendingPlays + pendingRestarts

\* -------------------------------------------------------------- observation
Origin == <<0, 0, 0, 0>>
Position == <<currentSection, currentMeasure, currentBeat, currentSubdivision>>
NoPos == <<-1, -1, -1, -1>>
NoRun == [clean |-> FALSE, ticks |-> 0, secs |-> <<>>, nexts |-> <<>>, ends |-> 0]
NewRun == [clean |-> TRUE, ticks |-> 0, secs |-> <<>>, nexts |-> <<>>, ends |-> 0]
Op(name, arg) ==
    [op |-> name, arg |-> arg, pos |-> NoPos, click |-> "none", next |-> -1,
     ended |-> FALSE, said |-> "none", left |-> -1, err |-> "none"]

\* -------------------------------------------------------------- SongManager
\* loadSongData() without argument: the four song fields come from the form
FormLoaded ==
    LET fd == getFormData IN
    [tempo |-> fd.tempo, sections |-> fd.sections, songTitle |-> fd.title,
     subdivision |-> fd.subdivision]

\* a pause that leaves the interval running
pauseLeavesTimer ==
    /\ isPlaying' = FALSE
    /\ UNCHANGED <<timers, intervalId>>

\* pause(): clears the stored handle only
pause ==
    /\ isPlaying' = FALSE
    /\ IF intervalId # Null
          THEN /\ timers' = clearInterval(intervalId)
               /\ intervalId' = Null
          ELSE UNCHANGED <<timers, intervalId>>

\* stop(): pause, then the position goes back to the origin
stop ==
    /\ pause
    /\ currentSection' = 0
    /\ currentMeasure' = 0
    /\ currentBeat' = 0
    /\ currentSubdivision' = 0

\* the four completion tests of processSubdivision, innermost first
\* a beat that is complete after its first click
beatCompleteEarly(sub1) == sub1 >= 1
\* a beat of one click too many
beatCompleteLate(sub1) == sub1 > getSubdivisionSettings.clicksPerBeat
beatComplete(sub1) == sub1 >= getSubdivisionSettings.clicksPerBeat
\* a measure of five beats
measureCompleteLate(beat1) == beat1 > BeatsPerMeasure
measureComplete(beat1) == beat1 >= BeatsPerMeasure
\* a section lasts one measure too long
sectionCompleteLate(mea1) ==
    /\ currentSection + 1 \in DOMAIN sections
    /\ mea1 > sections[currentSection + 1]
sectionComplete(mea1) ==
    /\ currentSection + 1 \in DOMAIN sections       \* currentSectionData is defined
    /\ mea1 >= sections[currentSection + 1]
\* the song ends one section late
songCompleteLate(sec1) == sec1 > Len(sections)
songComplete(sec1) == sec1 >= Len(sections)

\* the position after one processSubdivision advance; done = completeSong reached
Advance ==
    LET sub1 == currentSubdivision + 1
        beatDone == beatComplete(sub1)
        beat1 == IF beatDone THEN currentBeat + 1 ELSE currentBeat
        measureDone == beatDone /\ measureComplete(beat1)
        mea1 == IF measureDone THEN currentMeasure + 1 ELSE currentMeasure
        sectionDone == measureDone /\ sectionComplete(mea1)
        sec1 == IF sectionDone THEN currentSection + 1 ELSE currentSection
    IN  [sec |-> sec1,
         mea |-> IF sectionDone THEN 0 ELSE mea1,
         beat |-> IF measureDone THEN 0 ELSE beat1,
         sub |-> IF beatDone THEN 0 ELSE sub1,
         done |-> sectionDone /\ songComplete(sec1)]

\* the look-ahead announcement condition of processSubdivision
LookAhead ==
    /\ currentBeat = 0 /\ currentSubdivision = 0
    /\ voiceEnabled
    /\ currentSection + 1 \in DOMAIN sections
    /\ currentSection + 1 < Len(sections)
    /\ currentMeasure = sections[currentSection + 1] - 1

\* what a processed tick adds to the record of an uninterrupted run
RunAfterTick(adv) ==
    IF ~run.clean THEN run
    ELSE [clean |-> TRUE,
          ticks |-> run.ticks + 1,
          secs  |-> IF run.secs = <<>> \/ run.secs[Len(run.secs)] # currentSection
                       THEN Append(run.secs, currentSection) ELSE run.secs,
          nexts |-> IF LookAhead
                       THEN Append(run.nexts, <<run.ticks + 1, currentSection + 1>>)
                       ELSE run.nexts,
          ends  |-> IF adv.done THEN run.ends + 1 ELSE run.ends]

\* processSubdivision(), the setInterval callback of handle h
Tick(h) ==
    /\ UNCHANGED stVars
    /\ h \in DOMAIN timers
    /\ IF ~isPlaying
          THEN UNCHANGED playVars
          ELSE LET adv == Advance
                   isDownbeat == currentBeat = 0 /\ currentSubdivision = 0
               IN
               /\ IF adv.done
                     THEN stop     \* completeSong()
                     ELSE /\ currentSection' = adv.sec
                          /\ currentMeasure' = adv.mea
                          /\ currentBeat' = adv.beat
                          /\ currentSubdivision' = adv.sub
                          /\ UNCHANGED <<isPlaying, intervalId, timers>>
               /\ lastOp' = [op |-> "tick", arg |-> 0, pos |-> Position,
                             click |-> playSubdivisionClick(currentSubdivision, isDownbeat),
                             next |-> IF LookAhead THEN currentSection + 1 ELSE -1,
                             ended |-> adv.done,
                             said |-> IF adv.done
                                        THEN (IF voiceEnabled THEN "end" ELSE "none")
                                        ELSE (IF LookAhead THEN "next" ELSE "none"),
                             left |-> IF adv.sec # currentSection
                                        THEN lookAheads + (IF LookAhead THEN 1 ELSE 0)
                                        ELSE -1,
                             err |-> "none"]
               /\ resumeFrom' = NoPos
               /\ lookAheads' = IF adv.sec # currentSection THEN 0
                                ELSE lookAheads + (IF LookAhead THEN 1 ELSE 0)
               /\ run' = RunAfterTick(adv)
               /\ UNCHANGED <<songVars, audioVars, form, pendingPlays, pendingRestarts, halted>>

\* play() up to its await: the rest runs when the audio context has resumed
playCall == pendingPlays' = pendingPlays + 1

\* a play() that starts the interval without looking at the section list
PlayResumeAnySong ==
    /\ UNCHANGED stVars
    /\ pendingPlays > 0
    /\ pendingPlays' = pendingPlays - 1
    /\ LET needLoad == Len(sections) = 0 \/ songTitle = ""
           song == IF needLoad THEN FormLoaded
                   ELSE [tempo |-> tempo, sections |-> sections, songTitle |-> songTitle,
                         subdivision |-> subdivision]
       IN
       /\ tempo' = song.tempo
       /\ sections' = song.sections
       /\ songTitle' = song.songTitle
       /\ subdivision' = song.subdivision
       /\ Cardinality(DOMAIN timers) < MaxTimers
       /\ isPlaying' = TRUE
       /\ intervalId' = FreshHandle
       /\ timers' = setInterval(getSubdivisionInterval(song.tempo))
       /\ lastOp' = [Op("playStarted", 0) EXCEPT
                       !.pos = Position,
                       !.said = IF voiceEnabled /\ currentSection < Len(song.sections)
                                  THEN "start" ELSE "none"]
    /\ UNCHANGED <<posVars, audioVars, form, pendingRestarts, halted, resumeFrom,
                   lookAheads, run>>

\* play() after the await, audio resumed
PlayResume ==
    /\ UNCHANGED stVars
    /\ pendingPlays > 0
    /\ pendingPlays' = pendingPlays - 1
    /\ LET needLoad == Len(sections) = 0 \/ songTitle = ""
           song == IF needLoad THEN FormLoaded
                   ELSE [tempo |-> tempo, sections |-> sections, songTitle |-> songTitle,
                         subdivision |-> subdivision]
       IN
       /\ tempo' = song.tempo
       /\ sections' = song.sections
       /\ songTitle' = song.songTitle
       /\ subdivision' = song.subdivision
       /\ IF Len(song.sections) = 0
             THEN /\ UNCHANGED <<isPlaying, intervalId, timers>>
                  /\ lastOp' = [Op("playRejected", 0) EXCEPT
                                  !.err = "Add at least one section to play"]
             ELSE /\ Cardinality(DOMAIN timers) < MaxTimers
                  /\ isPlaying' = TRUE
                  /\ intervalId' = FreshHandle
                  /\ timers' = setInterval(getSubdivisionInterval(song.tempo))
                  /\ lastOp' = [Op("playStarted", 0) EXCEPT
                                  !.pos = Position,
                                  !.said = IF voiceEnabled /\ currentSection < Len(song.sections)
                                             THEN "start" ELSE "none"]
    /\ UNCHANGED <<posVars, audioVars, form, pendingRestarts, halted, resumeFrom,
                   lookAheads, run>>

\* play() after the await, resumeAudioContext() rejected: the catch block pauses
PlayResumeFail ==
    /\ UNCHANGED stVars
    /\ pendingPlays > 0
    /\ pendingPlays' = pendingPlays - 1
    /\ pause
    /\ lastOp' = [Op("playFailed", 0) EXCEPT !.err = "Failed to start playback"]
    /\ run' = NoRun
    /\ UNCHANGED <<posVars, songVars, audioVars, form, pendingRestarts, halted, resumeFrom,
                   lookAheads>>

\* play() after the await when the start announcement throws: isPlaying was set,
\* setInterval is not reached, and the catch block pauses
PlayResumeAnnounceFails ==
    /\ UNCHANGED stVars
    /\ pendingPlays > 0
    /\ pendingPlays' = pendingPlays - 1
    /\ LET needLoad == Len(sections) = 0 \/ songTitle = ""
           song == IF needLoad THEN FormLoaded
                   ELSE [tempo |-> tempo, sections |-> sections, songTitle |-> songTitle,
                         subdivision |-> subdivision]
       IN
       /\ Len(song.sections) > 0
       /\ voiceEnabled /\ currentSection < Len(song.sections)
       /\ tempo' = song.tempo
       /\ sections' = song.sections
       /\ songTitle' = song.songTitle
       /\ subdivision' = song.subdivision
    /\ pause
    /\ lastOp' = [Op("playFailed", 1) EXCEPT !.err = "Failed to start playback"]
    /\ run' = NoRun
    /\ UNCHANGED <<posVars, audioVars, form, pendingRestarts, halted, resumeFrom,
                   lookAheads>>

\* processSubdivision() of handle h when the look-ahead announcement throws: the
\* click was played, the exception leaves the callback before the advance
TickAnnounceFails(h) ==
    /\ UNCHANGED stVars
    /\ h \in DOMAIN timers
    /\ isPlaying
    /\ LookAhead
    /\ lastOp' = [Op("tick", 0) EXCEPT
                    !.pos = Position,
                    !.click = playSubdivisionClick(currentSubdivision,
                                                   currentBeat = 0 /\ currentSubdivision = 0),
                    !.next = currentSection + 1,
                    !.err = "announceSection failed"]
    /\ run' = NoRun
    /\ UNCHANGED <<isPlaying, posVars, intervalId, songVars, audioVars, form, loopVars,
                   halted, resumeFrom, lookAheads>>

\* the callback of setTimeout(() => this.play(), 100)
RestartFire ==
    /\ UNCHANGED stVars
    /\ pendingRestarts > 0
    /\ pendingRestarts' = pendingRestarts - 1
    /\ playCall
    /\ lastOp' = Op("restart", 0)
    /\ UNCHANGED <<isPlaying, posVars, intervalId, songVars, audioVars, form, timers,
                   halted, resumeFrom, lookAheads, run>>

\* a togglePlay whose pause branch calls stop()
TogglePlayStops ==
    /\ UNCHANGED stVars
    /\ IF isPlaying
          THEN /\ stop
               /\ lastOp' = Op("pause", 0)
               /\ halted' = TRUE
               /\ resumeFrom' = Position
               /\ run' = NoRun
               /\ lookAheads' = 0
               /\ UNCHANGED <<songVars, audioVars, form, pendingPlays, pendingRestarts>>
          ELSE /\ Pending < MaxPending
               /\ playCall
               /\ lastOp' = Op("play", 0)
               /\ halted' = FALSE
               /\ run' = IF Position = Origin /\ Pending = 0 /\ DOMAIN timers = {}
                            THEN NewRun ELSE NoRun
               /\ UNCHANGED <<isPlaying, posVars, intervalId, songVars, audioVars, form,
                              timers, pendingRestarts, resumeFrom, lookAheads>>

\* togglePlay(), the play button
TogglePlay ==
    /\ UNCHANGED stVars
    /\ IF isPlaying
          THEN /\ pause
               /\ lastOp' = Op("pause", 0)
               /\ halted' = TRUE
               /\ resumeFrom' = Position
               /\ run' = NoRun
               /\ UNCHANGED <<posVars, songVars, audioVars, form, pendingPlays, pendingRestarts,
                              lookAheads>>
          ELSE /\ Pending < MaxPending
               /\ playCall
               /\ lastOp' = Op("play", 0)
               /\ halted' = FALSE
               /\ run' = IF Position = Origin /\ Pending = 0 /\ DOMAIN timers = {}
                            THEN NewRun ELSE NoRun
               /\ UNCHANGED <<isPlaying, posVars, intervalId, songVars, audioVars, form,
                              timers, pendingRestarts, resumeFrom, lookAheads>>

\* stop(), the stop button
Stop ==
    /\ UNCHANGED stVars
    /\ stop
    /\ lastOp' = Op("stop", 0)
    /\ halted' = TRUE
    /\ resumeFrom' = NoPos
    /\ lookAheads' = 0
    /\ run' = NoRun
    /\ UNCHANGED <<songVars, audioVars, form, pendingPlays, pendingRestarts>>

\* a setTempo that restarts whether or not playback was running
setTempoRestartsAlways(newTempo) ==
    LET validatedTempo == validateTempo(newTempo) IN
    IF tempo # validatedTempo
       THEN /\ tempo' = validatedTempo
            /\ pause
            /\ pendingRestarts' = pendingRestarts + 1
       ELSE UNCHANGED <<tempo, isPlaying, intervalId, timers, pendingRestarts>>

\* setTempo(newTempo)
setTempo(newTempo) ==
    LET validatedTempo == validateTempo(newTempo) IN
    IF tempo # validatedTempo
       THEN /\ tempo' = validatedTempo
            /\ IF isPlaying
                  THEN /\ pause
                       /\ pendingRestarts' = pendingRestarts + 1
                  ELSE UNCHANGED <<isPlaying, intervalId, timers, pendingRestarts>>
       ELSE UNCHANGED <<tempo, isPlaying, intervalId, timers, pendingRestarts>>

\* onTempoChange: the tempo input now shows v, and setTempo(parseInt(v)) runs
OnTempoChange(v) ==
    /\ UNCHANGED stVars
    /\ Pending < MaxPending
    /\ form' = [form EXCEPT !.tempo = v]
    /\ setTempo(v)
    /\ lastOp' = Op("setTempo", v)
    /\ run' = NoRun
    /\ UNCHANGED <<posVars, sections, songTitle, subdivision, audioVars, pendingPlays,
                   halted, resumeFrom, lookAheads>>

\* AudioManager.setSubdivision(k): unknown kinds are ignored; the select shows k
amSetSubdivision(k) ==
    IF k \in DOMAIN subdivisionSettings
       THEN /\ amSubdivision' = k
            /\ form' = [form EXCEPT !.subdivision = k]
       ELSE UNCHANGED <<amSubdivision, form>>

\* onSubdivisionChange: both managers are told, then pause + delayed play if playing
OnSubdivisionChange(k) ==
    /\ UNCHANGED stVars
    /\ Pending < MaxPending
    /\ amSetSubdivision(k)
    /\ subdivision' = k
    /\ IF isPlaying
          THEN /\ pause
               /\ pendingRestarts' = pendingRestarts + 1
          ELSE UNCHANGED <<isPlaying, intervalId, timers, pendingRestarts>>
    /\ lastOp' = Op("setSubdivision", 0)
    /\ run' = NoRun
    /\ UNCHANGED <<posVars, tempo, sections, songTitle, voiceEnabled,
                   measureAnnouncementEnabled, metronomeEnabled, pendingPlays,
                   halted, resumeFrom, lookAheads>>

\* jumpToSection(sectionIndex)
JumpToSection(sectionIndex) ==
    /\ UNCHANGED stVars
    /\ Pending < MaxPending
    /\ IF sectionIndex >= 0 /\ sectionIndex < Len(sections)
          THEN /\ IF isPlaying
                     THEN /\ pause
                          /\ pendingRestarts' = pendingRestarts + 1
                     ELSE UNCHANGED <<isPlaying, intervalId, timers, pendingRestarts>>
               /\ currentSection' = sectionIndex
               /\ currentMeasure' = 0
               /\ currentBeat' = 0
               /\ UNCHANGED currentSubdivision
               /\ resumeFrom' = NoPos
               /\ lookAheads' = 0
          ELSE UNCHANGED <<isPlaying, intervalId, timers, pendingRestarts, posVars, resumeFrom,
                           lookAheads>>
    /\ lastOp' = Op("jump", sectionIndex)
    /\ run' = NoRun
    /\ UNCHANGED <<songVars, audioVars, form, pendingPlays, halted>>

\* toggleVoice()
ToggleVoice ==
    /\ UNCHANGED stVars
    /\ voiceEnabled' = ~voiceEnabled
    /\ lastOp' = Op("toggleVoice", 0)
    /\ UNCHANGED <<isPlaying, posVars, intervalId, songVars, amSubdivision,
                   measureAnnouncementEnabled, metronomeEnabled, form, loopVars,
                   halted, resumeFrom, lookAheads, run>>

\* toggleMetronome()
ToggleMetronome ==
    /\ UNCHANGED stVars
    /\ metronomeEnabled' = ~metronomeEnabled
    /\ lastOp' = Op("toggleMetronome", 0)
    /\ UNCHANGED <<isPlaying, posVars, intervalId, songVars, amSubdivision, voiceEnabled,
                   measureAnnouncementEnabled, form, loopVars, halted, resumeFrom,
                   lookAheads, run>>

\* loadSongData(songData) with an argument: the four fields are assigned as given
loadSongData(songData) ==
    /\ tempo' = songData.tempo
    /\ sections' = songData.sections
    /\ songTitle' = songData.title
    /\ subdivision' = songData.subdivision

\* selectSong(songId) for a stored song: stop(), loadSongData(song), then the
\* song's subdivision is applied to the AudioManager
SelectSong(song) ==
    /\ UNCHANGED stVars
    /\ stop
    /\ loadSongData(song)
    /\ amSetSubdivision(song.subdivision)
    /\ lastOp' = Op("selectSong", 0)
    /\ resumeFrom' = NoPos
    /\ lookAheads' = 0
    /\ run' = NoRun
    /\ UNCHANGED <<voiceEnabled, measureAnnouncementEnabled, metronomeEnabled,
                   pendingPlays, pendingRestarts, halted>>

\* the user edits the section rows of the composer form (addSection /
\* removeSection / typing): only the DOM changes, no SongManager method runs
EditForm(s) ==
    /\ UNCHANGED stVars
    /\ form' = [form EXCEPT !.sections = s]
    /\ UNCHANGED <<isPlaying, posVars, intervalId, songVars, audioVars, loopVars, obsVars>>

\* onComposeReset: resetFormToDefaults() leaves an empty title, tempo 120, quarter
\* and one unnamed section row, which getFormData drops
ComposeReset ==
    /\ UNCHANGED stVars
    /\ form' = [title |-> "", tempo |-> 120, subdivision |-> "quarter", sections |-> <<>>]
    /\ UNCHANGED <<isPlaying, posVars, intervalId, songVars, audioVars, loopVars, obsVars>>

\* ----------------------------------------------------------- StorageManager
StOp(name, ok) == [op |-> name, ok |-> ok, merge |-> FALSE, count |-> 0, fresh |-> 0]
Put(songs, id, song) == [i \in DOMAIN songs \cup {id} |-> IF i = id THEN song ELSE songs[i]]
Remove(songs, id) == [i \in DOMAIN songs \ {id} |-> songs[i]]

\* the title, tempo, subdivision and sections that saveSong and processImportData
\* store for a song
Sanitized(song) ==
    [title |-> sanitizeInput(song.title),
     tempo |-> validateTempo(song.tempo),
     subdivision |-> song.subdivision,
     sections |-> [i \in DOMAIN song.sections |-> validateMeasures(song.sections[i])]]

\* saveSongs(): the collection `songs` is written to localStorage; the result is
\* its return value
saveSongsOk == storageAvailable /\ ~writeFails
saveSongs(songs) == localStorage' = IF saveSongsOk THEN songs ELSE localStorage

\* saveSong(songData), songData.id being id (NoId: not provided)
SaveSong(songData, id) ==
    /\ id = NoId => DOMAIN savedSongs # Ids
    /\ IF songData.title = "" \/ Len(songData.sections) = 0
          THEN /\ stOp' = StOp("saveSong", FALSE)
               /\ UNCHANGED <<savedSongs, localStorage>>
          ELSE LET newId == IF id = NoId THEN generateId(DOMAIN savedSongs) ELSE id
                   stored == Put(savedSongs, newId, Sanitized(songData))
               IN  /\ savedSongs' = stored
                   /\ saveSongs(stored)
                   /\ stOp' = StOp("saveSong", saveSongsOk)
    /\ UNCHANGED <<playVars, storageAvailable, writeFails>>

\* deleteSong(songId); confirmed is the answer to the confirm() dialog
DeleteSong(songId, confirmed) ==
    /\ IF songId \notin DOMAIN savedSongs \/ ~confirmed
          THEN /\ stOp' = StOp("deleteSong", FALSE)
               /\ UNCHANGED <<savedSongs, localStorage>>
          ELSE /\ savedSongs' = Remove(savedSongs, songId)
               /\ saveSongs(Remove(savedSongs, songId))
               /\ stOp' = StOp("deleteSong", TRUE)
    /\ UNCHANGED <<playVars, storageAvailable, writeFails>>

\* the structure test of an imported song: tempo and measures are numbers and the
\* sections are named in the model, so the title and the section list decide
isValidSongData(song) == song.title # "" /\ Len(song.sections) > 0

\* the forEach of processImportData over the entries not yet visited
RECURSIVE Imported(_, _, _)
Imported(acc, songs, keys) ==
    IF keys = {} THEN acc
    ELSE LET key == CHOOSE k \in keys : \A j \in keys : k <= j
             newId == IF key \in DOMAIN acc
                         THEN generateId(DOMAIN acc \cup DOMAIN songs) ELSE key
             next == IF isValidSongData(songs[key])
                        THEN Put(acc, newId, Sanitized(songs[key]))
                        ELSE acc
         IN  Imported(next, songs, keys \ {key})

ValidKeys(songs) == {k \in DOMAIN songs : isValidSongData(songs[k])}

\* the valid imported songs whose key is taken in the collection `kept`
Collisions(kept, songs) == ValidKeys(songs) \cap DOMAIN kept

\* an import that empties the collection whatever the answer is
ProcessImportDataReplacing(importData, shouldMerge) ==
    /\ IF ~importData.hasSongs
          THEN /\ stOp' = StOp("import", FALSE)
               /\ UNCHANGED <<savedSongs, localStorage>>
          ELSE LET kept == <<>>
                   result == Imported(kept, importData.songs, DOMAIN importData.songs)
               IN  /\ Cardinality(DOMAIN kept \cup DOMAIN importData.songs)
                          + Cardinality(Collisions(kept, importData.songs)) <= MaxIds
                   /\ savedSongs' = result
                   /\ saveSongs(result)
                   /\ stOp' = [op |-> "import", ok |-> TRUE, merge |-> shouldMerge,
                               count |-> Cardinality(ValidKeys(importData.songs)),
                               fresh |-> Cardinality(Collisions(kept, importData.songs))]
    /\ UNCHANGED <<playVars, storageAvailable, writeFails>>

\* processImportData(importData); shouldMerge is the answer to the confirm() dialog
ProcessImportData(importData, shouldMerge) ==
    /\ IF ~importData.hasSongs
          THEN /\ stOp' = StOp("import", FALSE)
               /\ UNCHANGED <<savedSongs, localStorage>>
          ELSE LET kept == IF shouldMerge THEN savedSongs ELSE <<>>
                   result == Imported(kept, importData.songs, DOMAIN importData.songs)
               IN  /\ Cardinality(DOMAIN kept \cup DOMAIN importData.songs)
                          + Cardinality(Collisions(kept, importData.songs)) <= MaxIds
                   /\ savedSongs' = result
                   /\ saveSongs(result)
                   /\ stOp' = [op |-> "import", ok |-> TRUE, merge |-> shouldMerge,
                               count |-> Cardinality(ValidKeys(importData.songs)),
                               fresh |-> Cardinality(Collisions(kept, importData.songs))]
    /\ UNCHANGED <<playVars, storageAvailable, writeFails>>

\* ------------------------------------------------------------ specifications
Songs == UNION {[1..n -> 1..MaxMeasures] : n \in 0..MaxSections}
TempoInputs == {-5, 0, 10, 59, 60, 61, 120, 199, 200, 201, 500}

\* the state the constructors leave: SongManager and AudioManager defaults, then
\* DrumHelper's loadSongData() from the form as the page shows it
InitPlayback(forms) ==
    /\ form \in forms
    /\ isPlaying = FALSE
    /\ currentSection = 0 /\ currentMeasure = 0 /\ currentBeat = 0
    /\ currentSubdivision = 0
    /\ intervalId = Null
    /\ tempo = validateTempo(form.tempo)
    /\ sections = form.sections
    /\ songTitle = form.title
    /\ subdivision = form.subdivision
    /\ amSubdivision = "quarter"
    /\ voiceEnabled = TRUE
    /\ measureAnnouncementEnabled = TRUE
    /\ metronomeEnabled = TRUE
    /\ timers = <<>>
    /\ pendingPlays = 0
    /\ pendingRestarts = 0
    /\ lastOp = Op("init", 0)
    /\ halted = FALSE
    /\ resumeFrom = NoPos
    /\ lookAheads = 0
    /\ run = NoRun

\* the StorageManager constructor: the probe of localStorage, then loadSavedSongs()
InitStorage(available, failing, stores) ==
    /\ storageAvailable \in available
    /\ writeFails \in failing
    /\ localStorage \in stores
    /\ savedSongs = IF storageAvailable THEN localStorage ELSE <<>>
    /\ stOp = StOp("init", TRUE)

InitWith(forms) == InitPlayback(forms) /\ InitStorage({TRUE}, {FALSE}, {<<>>})

\* the scheduler under every interleaving of commands and callbacks
SchedForms ==
    {[title |-> "Song", tempo |-> 120, subdivision |-> "quarter", sections |-> s] :
        s \in {<<1>>, <<1, 1>>}}
SchedTempos == {120, 500}
SchedKinds == {"quarter", "eighth"}
Init == InitWith(SchedForms)
Next ==
    \/ TogglePlay
    \/ Stop
    \/ \E v \in SchedTempos : OnTempoChange(v)
    \/ \E k \in SchedKinds : OnSubdivisionChange(k)
    \/ \E i \in -1..MaxSections : JumpToSection(i)
    \/ PlayResume
    \/ PlayResumeFail
    \/ RestartFire
    \/ \E h \in DOMAIN timers : Tick(h)
Spec == Init /\ [][Next]_vars

\* uninterrupted playback: the subdivision and the voice toggle are chosen, play is
\* pressed once at the origin, and then only the callbacks run
RunForms ==
    {[title |-> "Song", tempo |-> 120, subdivision |-> "quarter", sections |-> s] :
        s \in Songs}
NotStarted == lastOp.op \in {"init", "setSubdivision", "toggleVoice"}
InitRun == InitWith(RunForms)
NextRun ==
    \/ NotStarted /\ \E k \in Kinds : OnSubdivisionChange(k)
    \/ NotStarted /\ ToggleVoice
    \/ NotStarted /\ TogglePlay
    \/ PlayResume
    \/ \E h \in DOMAIN timers : Tick(h)
SpecRun == InitRun /\ [][NextRun]_vars

\* tempo changes over a range of requested values, while stopped and while playing
TempoForms ==
    {[title |-> "Song", tempo |-> 120, subdivision |-> "quarter", sections |-> <<1>>]}
InitTempo == InitWith(TempoForms)
NextTempo ==
    \/ \E v \in TempoInputs : OnTempoChange(v)
    \/ TogglePlay
    \/ PlayResume
    \/ RestartFire
    \/ \E h \in DOMAIN timers : Tick(h)
SpecTempo == InitTempo /\ [][NextTempo]_vars

\* songs and the composer form: the form is edited or reset, a stored song is
\* selected, and play() reloads the form when no titled song is loaded
LoadTitles == {"", "Song"}
LoadSections == {<<>>, <<1>>, <<1, 1>>}
LoadForms ==
    {[title |-> t, tempo |-> 120, subdivision |-> "quarter", sections |-> s] :
        t \in LoadTitles, s \in LoadSections}
\* what saveSong stores: a title, at least one section, validated measures
StoredSongs ==
    {[title |-> "Saved", tempo |-> 120, subdivision |-> "quarter", sections |-> <<1>>]}
\* a position outside the song never completes its section: the measure count is capped
MeasureCap == MaxMeasures
InitLoad == InitWith(LoadForms)
NextLoad ==
    \/ TogglePlay
    \/ \E s \in LoadSections : EditForm(s)
    \/ ComposeReset
    \/ \E song \in StoredSongs : SelectSong(song)
    \/ \E i \in -1..MaxSections : JumpToSection(i)
    \/ PlayResume
    \/ PlayResumeFail
    \/ RestartFire
    \/ \E h \in DOMAIN timers : currentMeasure < MeasureCap /\ Tick(h)
SpecLoad == InitLoad /\ [][NextLoad]_vars

\* tempo changes during playback of the song the composer form holds
RestartTempos == {500}
NextRestart ==
    \/ TogglePlay
    \/ \E v \in RestartTempos : OnTempoChange(v)
    \/ \E s \in LoadSections : EditForm(s)
    \/ ComposeReset
    \/ PlayResume
    \/ RestartFire
    \/ \E h \in DOMAIN timers : currentMeasure < MeasureCap /\ Tick(h)
SpecRestart == InitLoad /\ [][NextRestart]_vars

\* the click of every tick: all four subdivisions, switched at any moment, with
\* the metronome on or off
NextClick ==
    \/ ToggleMetronome
    \/ \E k \in Kinds : OnSubdivisionChange(k)
    \/ TogglePlay
    \/ PlayResume
    \/ RestartFire
    \/ \E h \in DOMAIN timers : Tick(h)
SpecClick == InitTempo /\ [][NextClick]_vars

\* playback in which the announcement collaborator may throw
FailForms ==
    {[title |-> "Song", tempo |-> 120, subdivision |-> "quarter", sections |-> s] :
        s \in {<<1, 1>>, <<2, 1>>}}
InitFail == InitWith(FailForms)
NextFail ==
    \/ TogglePlay
    \/ PlayResume
    \/ PlayResumeAnnounceFails
    \/ \E h \in DOMAIN timers : Tick(h)
    \/ \E h \in DOMAIN timers : TickAnnounceFails(h)
SpecFail == InitFail /\ [][NextFail]_vars

\* the song library: songs are saved, deleted and imported while nothing plays
RawSongs ==
    {[title |-> "Song", tempo |-> 120, subdivision |-> "quarter", sections |-> <<4>>],
     [title |-> "Song", tempo |-> 250, subdivision |-> "quarter", sections |-> <<0, 40>>],
     [title |-> "<>", tempo |-> 30, subdivision |-> "quarter", sections |-> <<4>>],
     [title |-> "", tempo |-> 120, subdivision |-> "quarter", sections |-> <<4>>],
     [title |-> "Song", tempo |-> 120, subdivision |-> "quarter", sections |-> <<>>]}
\* the songs of an imported file: out of range, with a title of markup only, and
\* without sections
FileSongs ==
    {[title |-> "Song", tempo |-> 250, subdivision |-> "quarter", sections |-> <<0, 40>>],
     [title |-> "<>", tempo |-> 30, subdivision |-> "quarter", sections |-> <<4>>],
     [title |-> "Song", tempo |-> 120, subdivision |-> "quarter", sections |-> <<>>]}
ImportFiles ==
    {[hasSongs |-> FALSE, songs |-> <<>>]}
    \cup {[hasSongs |-> TRUE, songs |-> f] :
            f \in UNION {[K -> FileSongs] : K \in {K \in SUBSET Ids : Cardinality(K) <= MaxImport}}}
InitStore ==
    /\ InitPlayback(TempoForms)
    /\ InitStorage(BOOLEAN, BOOLEAN, {<<>>})
NextStore ==
    \/ \E songData \in RawSongs, id \in Ids \cup {NoId} : SaveSong(songData, id)
    \/ \E id \in Ids, confirmed \in BOOLEAN : DeleteSong(id, confirmed)
    \/ \E importData \in ImportFiles, shouldMerge \in BOOLEAN :
          ProcessImportData(importData, shouldMerge)
SpecStore == InitStore /\ [][NextStore]_vars

\* playback that the browser keeps driving: every interval that is set keeps
\* firing, and a play() past its await runs to its end
Callbacks ==
    \/ PlayResume
    \/ \E h \in DOMAIN timers : currentMeasure < MeasureCap /\ Tick(h)
NextLive ==
    \/ TogglePlay
    \/ \E s \in LoadSections : EditForm(s)
    \/ PlayResume
    \/ \E h \in DOMAIN timers : currentMeasure < MeasureCap /\ Tick(h)
LiveLoad == InitLoad /\ [][NextLive]_vars /\ WF_vars(Callbacks)
LiveRun == InitRun /\ [][NextRun]_vars /\ WF_vars(Callbacks)

\* the subdivision as the two managers hold it: the select is changed (also to a
\* value that is no known kind), the form is reset, a stored song is selected,
\* and play() reloads the form when no titled song is loaded
SubForms ==
    {[title |-> t, tempo |-> 120, subdivision |-> "quarter", sections |-> <<1>>] :
        t \in LoadTitles}
SubInputs == {"quarter", "eighth", "dotted"}
SubSongs == {[title |-> "Saved", tempo |-> 120, subdivision |-> "triplet", sections |-> <<1>>]}
InitSub == InitWith(SubForms)
NextSub ==
    \/ \E k \in SubInputs : OnSubdivisionChange(k)
    \/ ComposeReset
    \/ \E song \in SubSongs : SelectSong(song)
    \/ TogglePlay
    \/ PlayResume
    \/ RestartFire
    \/ \E h \in DOMAIN timers : currentMeasure < MeasureCap /\ Tick(h)
SpecSub == InitSub /\ [][NextSub]_vars

\* ------------------------------------------------------------------- claims
ClicksPerBeat == subdivisionSettings[amSubdivision].clicksPerBeat

\* C1: at most one repeating tick timer is active in every reachable state: every
\* active setInterval handle is the one stored in intervalId.
C1_SingleTimer == DOMAIN timers \subseteq {intervalId}

\* C2: once the user's stop() or pause() has returned, no tick is processed until
\* the user issues a new play / togglePlay command.
C2_NoTickWhileHalted == ~(lastOp.op = "tick" /\ halted)

\* C3: from the user's pause() until the first tick after the resuming play(), the
\* position is the one that held at the pause.
C3_ResumeAtPausedPosition == resumeFrom # NoPos => Position = resumeFrom
C3_Witness ==
    /\ lastOp.op = "playStarted" /\ isPlaying
    /\ resumeFrom # NoPos /\ resumeFrom # Origin
    /\ Position = resumeFrom

\* C4: an uninterrupted playback from the origin visits the sections in list order,
\* each exactly once (0, 1, ..., n-1, none skipped or repeated), and ends the song
\* exactly once, after the last section, with playback stopped.
C4_SectionsInOrder ==
    run.clean =>
        /\ run.secs = [i \in 1..Len(run.secs) |-> i - 1]
        /\ Len(run.secs) <= Len(sections)
        /\ run.ends <= 1
        /\ run.ends = 1 => /\ Len(run.secs) = Len(sections)
                           /\ ~isPlaying /\ DOMAIN timers = {}
        /\ (run.ends = 0 /\ run.ticks > 0) => isPlaying /\ currentSection < Len(sections)
C4_Witness ==
    /\ run.clean /\ run.ends = 1
    /\ Len(sections) = 2 /\ run.secs = <<0, 1>>

\* C5: a single section of N measures played uninterrupted from the origin at
\* quarter subdivision ends the song on its 4N-th tick, and not before.
C5_FourTicksPerMeasure ==
    (run.clean /\ Len(sections) = 1 /\ amSubdivision = "quarter") =>
        /\ run.ends = 1 => run.ticks = 4 * sections[1]
        /\ run.ends = 0 => run.ticks < 4 * sections[1]
C5_Witness ==
    /\ run.clean /\ run.ends = 1 /\ amSubdivision = "quarter"
    /\ Len(sections) = 1 /\ sections[1] = 3 /\ run.ticks = 12

\* C6: in every reachable state 0 <= currentSubdivision < clicksPerBeat of the
\* active subdivision profile.
C6_SubdivisionInRange == currentSubdivision >= 0 /\ currentSubdivision < ClicksPerBeat

\* C7: with voice enabled, every traversal of a section that has a successor (from
\* entering the section, by playing into it, by stop() or by jumpToSection, to
\* leaving it) announces "Next: <successor>" exactly once, and a look-ahead is only
\* announced on the tick at beat 0 / subdivision 0 of the section's last measure.
C7_LookAheadOnce ==
    (lastOp.op = "tick" /\ voiceEnabled) =>
        /\ (lastOp.left # -1 /\ lastOp.pos[1] + 1 < Len(sections)) => lastOp.left = 1
        /\ lastOp.next # -1 =>
              /\ lastOp.pos[3] = 0 /\ lastOp.pos[4] = 0
              /\ lastOp.pos[2] = sections[lastOp.pos[1] + 1] - 1
              /\ lastOp.next = lastOp.pos[1] + 1

\* C8: the song {tempo 120, quarter, [Intro: 2, Verse: 4]} played uninterrupted:
\* tick 1 is a downbeat, tick 5 (and no other) carries "Next: Verse", tick 9 is the
\* downbeat of Verse, tick 24 is the last tick of Verse and ends the song (stop and
\* "End of song"), so that no 25th tick is processed.
ExampleRun ==
    /\ run.clean /\ sections = <<2, 4>> /\ tempo = 120 /\ amSubdivision = "quarter"
    /\ voiceEnabled
ExampleUpToVerse ==
    /\ run.nexts = IF run.ticks >= 5 THEN << <<5, 1>> >> ELSE <<>>
    /\ (lastOp.op = "tick" /\ run.ticks = 1) =>
          lastOp.pos = Origin /\ lastOp.click = "downbeat"
    /\ (lastOp.op = "tick" /\ run.ticks = 5) =>
          lastOp.pos = <<0, 1, 0, 0>> /\ lastOp.said = "next" /\ lastOp.next = 1
    /\ (lastOp.op = "tick" /\ run.ticks = 9) =>
          lastOp.pos = <<1, 0, 0, 0>> /\ lastOp.click = "downbeat"
ExampleEndsAt(last) ==
    /\ run.ticks <= last
    /\ run.ends = IF run.ticks = last THEN 1 ELSE 0
    /\ (lastOp.op = "tick" /\ run.ticks = last) =>
          /\ lastOp.pos = <<1, 3, 3, 0>>
          /\ lastOp.ended /\ lastOp.said = "end"
          /\ ~isPlaying /\ DOMAIN timers = {} /\ Position = Origin
C8_Example == ExampleRun => (ExampleUpToVerse /\ ExampleEndsAt(24))
C8_Witness == ExampleRun /\ lastOp.op = "tick" /\ run.ticks = 24 /\ lastOp.ended
\* C8 as stated: tick 32 is the last tick of Verse and the song ends there, what
\* would be tick 33 being the song end.
C8_AsStated == ExampleRun => (ExampleUpToVerse /\ ExampleEndsAt(32))

\* C9: after setTempo(bpm) the tempo is bpm clamped to [60, 200]: 60 below the
\* range, 200 above it, bpm itself inside it.
C9_TempoClamped ==
    lastOp.op = "setTempo" =>
        /\ tempo = (IF lastOp.arg < 60 THEN 60 ELSE IF lastOp.arg > 200 THEN 200 ELSE lastOp.arg)
        /\ tempo >= 60 /\ tempo <= 200
        /\ lastOp.arg = 500 => tempo = 200
        /\ lastOp.arg = 10 => tempo = 60
C9_Witness ==
    /\ lastOp.op = "setTempo" /\ lastOp.arg = 500 /\ tempo = 200
    /\ pendingRestarts = 1

\* C10: stop() is idempotent: after any stop() isPlaying is false, no timer is
\* active and the position is the origin, and a stop() right after a stop()
\* changes nothing.
AfterStop == ~isPlaying /\ intervalId = Null /\ DOMAIN timers = {} /\ Position = Origin
C10_StopIdempotent ==
    [][lastOp'.op = "stop" =>
          /\ AfterStop'
          /\ lastOp.op = "stop" =>
                UNCHANGED <<isPlaying, posVars, intervalId, songVars, audioVars, timers>>]_vars

\* C11: a step that is a bare pause() (the pause branch of togglePlay, the catch
\* block of play) leaves isPlaying false and the stored handle cleared, removes at
\* most that handle's timer, and changes neither the position nor the loaded song
\* (sections, title, tempo, subdivision); when playback was already paused it
\* changes nothing of the playback state.
PauseOps == {"pause", "playFailed"}
C11_PauseFrame ==
    [][lastOp'.op \in PauseOps =>
          /\ isPlaying' = FALSE
          /\ intervalId' = Null
          /\ DOMAIN timers' = (DOMAIN timers) \ {intervalId}
          /\ UNCHANGED <<posVars, songVars>>
          /\ (~isPlaying => UNCHANGED <<isPlaying, intervalId, timers>>)]_vars
C11_Witness ==
    /\ lastOp.op = "pause"
    /\ ~isPlaying /\ intervalId = Null /\ timers = <<>>
    /\ Position # Origin

\* C12: whenever isPlaying is true the position is a valid location of the loaded
\* song: currentSection < sections.length, currentMeasure < the measures of the
\* current section, and 0 <= currentBeat < 4.
ValidPosition ==
    /\ currentSection >= 0 /\ currentSection < Len(sections)
    /\ IF currentSection + 1 \in DOMAIN sections
          THEN currentMeasure >= 0 /\ currentMeasure < sections[currentSection + 1]
          ELSE FALSE
    /\ currentBeat >= 0 /\ currentBeat < BeatsPerMeasure
C12_ValidWhilePlaying == isPlaying => ValidPosition

\* C13: a tempo change while playing does not move the position (neither setTempo,
\* nor the delayed restart callback, nor the play() it issues assigns a position
\* field, so the tick that was due plays the same position, once), and the play()
\* issued by the restart callback starts playback again.
RestartOps == {"setTempo", "restart", "playStarted", "playRejected"}
C13_RestartContinues ==
    [][/\ lastOp'.op \in RestartOps => UNCHANGED posVars
       /\ (lastOp.op = "restart" /\ pendingPlays = 1 /\ pendingPlays' = 0) => isPlaying']_vars

\* C14: setTempo called while not playing sets the tempo to the clamped value and
\* changes nothing else: isPlaying stays false, no interval and no delayed restart
\* is created, no play() is issued, and the position and the rest of the song are
\* unchanged.
C14_TempoOnlyWhenStopped ==
    [][(lastOp'.op = "setTempo" /\ ~isPlaying) =>
          /\ tempo' = validateTempo(lastOp'.arg)
          /\ UNCHANGED <<isPlaying, intervalId, timers, pendingPlays, pendingRestarts,
                          posVars, sections, songTitle, subdivision>>]_vars
C14_Witness ==
    /\ lastOp.op = "setTempo" /\ lastOp.arg = 500
    /\ tempo = MaxTempo
    /\ ~isPlaying /\ timers = <<>> /\ Pending = 0
    /\ Position # Origin

\* C15: after jumpToSection(i) with 0 <= i < sections.length the position is
\* section i, measure 0, beat 0, subdivision 0, whatever it was before.
C15_JumpResetsPosition ==
    (lastOp.op = "jump" /\ lastOp.arg >= 0 /\ lastOp.arg < Len(sections))
        => Position = <<lastOp.arg, 0, 0, 0>>

\* C16: jumpToSection(i) with i < 0 or i >= sections.length reports an error and
\* leaves the position, isPlaying and the timer as they were.
JumpOutOfRange == lastOp'.op = "jump" /\ (lastOp'.arg < 0 \/ lastOp'.arg >= Len(sections))
C16_JumpOutOfRangeRejected ==
    [][JumpOutOfRange =>
          /\ lastOp'.err # "none"
          /\ UNCHANGED <<posVars, isPlaying, intervalId, timers>>]_vars

\* C17: a song with no section, or with a section of fewer than one measure, never
\* replaces the loaded song: whenever the loaded sections change, the new value is
\* a valid song.
ValidSections(secs) == Len(secs) > 0 /\ \A i \in DOMAIN secs : secs[i] >= 1
C17_InvalidSongRejected == [][sections' # sections => ValidSections(sections')]_vars

\* C18: after a step that loads a song with success (selectSong of a stored song, or
\* the form reload that play() makes when no titled song is loaded, the result
\* having at least one section), the position is the origin.
FormReload ==
    /\ pendingPlays' = pendingPlays - 1
    /\ lastOp'.op \in {"playStarted", "playRejected"}
    /\ (Len(sections) = 0 \/ songTitle = "")
SongSelected == lastOp'.op = "selectSong" /\ form' = [form EXCEPT !.subdivision = subdivision']
C18_LoadResetsPosition ==
    [][((FormReload \/ SongSelected) /\ ValidSections(sections'))
          => (currentSection' = 0 /\ currentMeasure' = 0 /\ currentBeat' = 0
              /\ currentSubdivision' = 0)]_vars

\* C19: when a play() runs and no song with at least one section is available
\* (nothing playable is loaded and the form holds no named section), it reports an
\* error and starts nothing: isPlaying does not become true and no interval is
\* created.
NoSongAvailable ==
    IF Len(sections) = 0 \/ songTitle = ""
       THEN Len(getFormData.sections) = 0
       ELSE FALSE
PlayRuns == pendingPlays' = pendingPlays - 1
C19_NoPlayWithoutSong ==
    [][(PlayRuns /\ NoSongAvailable) =>
          /\ lastOp'.err # "none"
          /\ ~isPlaying => ~isPlaying'
          /\ DOMAIN timers' \subseteq DOMAIN timers]_vars
C19_Witness ==
    /\ lastOp.op = "playRejected"
    /\ sections = <<>>
    /\ ~isPlaying /\ intervalId = Null /\ timers = <<>>

\* C20: every rejected command (a play() with no playable song, a play() whose
\* audio resume fails, a jumpToSection out of range) leaves tempo, title,
\* subdivision, sections, position, isPlaying and the timers as they were.
PlayRejected == PlayRuns /\ lastOp'.op \in {"playRejected", "playFailed"}
C20_RejectedLeavesState ==
    [][(PlayRejected \/ JumpOutOfRange) =>
          UNCHANGED <<songVars, posVars, isPlaying, intervalId, timers>>]_vars

\* C21: the tick that completes the last beat of the last measure of the last
\* section stops the scheduler within that tick: after it isPlaying is false, no
\* timer is active, the position is the origin, and the step that follows is not
\* a processed tick.
SongEnded == lastOp.op = "tick" /\ lastOp.ended
C21_SongEndStops ==
    /\ [](SongEnded => AfterStop)
    /\ [][SongEnded => lastOp'.op # "tick"]_vars

\* C22: whenever a tick detects the end of the song, "End of song" is announced,
\* whatever the announcement settings are.
C22_EndAlwaysAnnounced == SongEnded => lastOp.said = "end"

\* C23: the song-start announcement is emitted before the very first tick of a song
\* only: a play() that resumes after the user's pause, and the play() issued by
\* the delayed restart of a tempo change, subdivision change or section jump, do
\* not announce "Starting with".
StartAnnounced == lastOp.op = "playStarted" /\ lastOp.said = "start"
C23_StartOnlyOnce ==
    /\ [](StartAnnounced => resumeFrom = NoPos)
    /\ [][(lastOp.op = "restart" /\ pendingPlays = 1 /\ lastOp'.op = "playStarted")
             => lastOp'.said # "start"]_vars

\* C24: each processed tick takes its click and its look-ahead announcement from
\* the position before the advance, and then moves the position by exactly one
\* subdivision step: the next subdivision of the beat, else the next beat, else
\* the next measure, else the next section, else the song ends (and the position
\* returns to the origin); never zero steps, never more than one.
StepOf(pos) ==
    LET s == pos[1]  m == pos[2]  b == pos[3]  u == pos[4] IN
    IF u + 1 < ClicksPerBeat THEN <<s, m, b, u + 1>>
    ELSE IF b + 1 < BeatsPerMeasure THEN <<s, m, b + 1, 0>>
    ELSE IF m + 1 < sections[s + 1] THEN <<s, m + 1, 0, 0>>
    ELSE IF s + 1 < Len(sections) THEN <<s + 1, 0, 0, 0>>
    ELSE Origin
LookAheadAt(pos) ==
    /\ voiceEnabled
    /\ pos[3] = 0 /\ pos[4] = 0
    /\ pos[1] + 1 < Len(sections)
    /\ pos[2] = sections[pos[1] + 1] - 1
C24_OneStepPerTick ==
    lastOp.op = "tick" =>
        /\ Position = StepOf(lastOp.pos)
        /\ Position # lastOp.pos \/ lastOp.ended
        /\ lastOp.click = playSubdivisionClick(lastOp.pos[4], lastOp.pos[3] = 0 /\ lastOp.pos[4] = 0)
        /\ (lastOp.next # -1) = LookAheadAt(lastOp.pos)
        /\ lastOp.next # -1 => lastOp.next = lastOp.pos[1] + 1
C24_Witness ==
    /\ lastOp.op = "tick" /\ amSubdivision = "eighth"
    /\ lastOp.pos = <<0, 0, 3, 1>> /\ Position = <<1, 0, 0, 0>>
    /\ isPlaying

\* C25: with the metronome on, the click of a tick is the downbeat click iff beat = 0
\* and subdivision = 0; otherwise the accent (full) click iff the subdivision index
\* is in the accent set of the active profile or the profile is quarter; otherwise
\* the soft click.  With the metronome off no click is played.
AccentSet == subdivisionSettings[amSubdivision].accent
C25_ClickKind ==
    lastOp.op = "tick" =>
        LET b == lastOp.pos[3]
            u == lastOp.pos[4]
            down == b = 0 /\ u = 0
            full == u \in AccentSet \/ amSubdivision = "quarter"
        IN  IF metronomeEnabled
               THEN /\ (lastOp.click = "downbeat") = down
                    /\ (lastOp.click = "beat") = (~down /\ full)
                    /\ (lastOp.click = "soft") = (~down /\ ~full)
               ELSE lastOp.click = "none"
C25_Witness ==
    /\ lastOp.op = "tick" /\ metronomeEnabled /\ amSubdivision = "triplet"
    /\ lastOp.pos[3] = 2 /\ lastOp.pos[4] = 0 /\ lastOp.click = "beat"

\* C26: while quarter subdivision is active no tick plays the soft click, also not
\* the ticks right after a switch to quarter in the middle of a beat, when the
\* subdivision index is still that of the previous profile.
C26_QuarterNeverSoft ==
    (lastOp.op = "tick" /\ amSubdivision = "quarter") => lastOp.click # "soft"
C26_Witness ==
    /\ lastOp.op = "tick" /\ amSubdivision = "quarter"
    /\ lastOp.pos[4] > 0 /\ lastOp.click = "beat"

\* C27: the song-start announcement and the look-ahead announcement exclude each
\* other per tick: the tick that follows a start announcement (the first tick of
\* the song) does not carry a look-ahead as well, even when the first section has
\* exactly one measure; and a look-ahead is only triggered on a tick at beat 0,
\* subdivision 0.
C27_StartExcludesLookAhead ==
    /\ [][(StartAnnounced /\ lastOp'.op = "tick") => lastOp'.said # "next"]_vars
    /\ []((lastOp.op = "tick" /\ lastOp.next # -1) => (lastOp.pos[3] = 0 /\ lastOp.pos[4] = 0))

\* C28: the playback state changes only along play, pause, stop and song end:
\* Playing is entered only by a play(), it is left only by a pause or stop (the
\* user's, or the one a restart or a failed play() makes) or by the song end, and
\* Playing is never entered without a play / togglePlay command issued after the
\* user's last pause or stop.
LeaveOps == {"pause", "stop", "setTempo", "setSubdivision", "jump", "playFailed"}
C28_StateMachine ==
    /\ [][(~isPlaying /\ isPlaying') => lastOp'.op = "playStarted"]_vars
    /\ [][(isPlaying /\ ~isPlaying') =>
             (lastOp'.op \in LeaveOps \/ (lastOp'.op = "tick" /\ lastOp'.ended))]_vars
    /\ [](halted => ~isPlaying)

\* C29: togglePlay() dispatches on the playback state: the togglePlay() that comes
\* right after a togglePlay() which started playback pauses, it does not issue a
\* second play(); so two togglePlay() calls in a row from a non-playing state end
\* non-playing, with no active timer.
C29_ToggleTwice ==
    /\ [][lastOp.op = "play" => lastOp'.op # "play"]_vars
    /\ []((lastOp.op = "pause" /\ Pending = 0) => (~isPlaying /\ DOMAIN timers = {}))

\* C30: a tick whose announcement fails still plays its click, still advances the
\* position by exactly one subdivision and leaves the timers active; and a play()
\* whose start announcement fails still starts playback.
AnnounceFailedTick == lastOp'.op = "tick" /\ lastOp'.err # "none" /\ lastOp' # lastOp
StartAnnounceFailed == lastOp'.op = "playFailed" /\ lastOp'.arg = 1 /\ pendingPlays' < pendingPlays
C30_AnnounceFailureIsolated ==
    /\ [][AnnounceFailedTick =>
             /\ lastOp'.click # "none"
             /\ <<currentSection', currentMeasure', currentBeat', currentSubdivision'>>
                    = StepOf(Position)
             /\ timers' = timers]_vars
    /\ [][StartAnnounceFailed => (isPlaying' /\ intervalId' # Null)]_vars

\* C31: a play() that runs while a song with at least one section is loaded keeps
\* that song: sections, tempo, title and subdivision are the same after as before.
SongLoaded == Len(sections) > 0
C31_PlayKeepsLoadedSong ==
    [][(PlayRuns /\ SongLoaded) =>
          /\ tempo' = tempo
          /\ sections' = sections
          /\ songTitle' = songTitle
          /\ subdivision' = subdivision]_vars

\* C32: jumpToSection only moves the position: isPlaying and the active timer are
\* the same immediately after the call as immediately before it.
C32_JumpKeepsTimer ==
    [][lastOp'.op = "jump" =>
          /\ isPlaying' = isPlaying
          /\ timers' = timers
          /\ intervalId' = intervalId]_vars

\* C33: with voice and measure announcements enabled, the tick that starts a
\* measure carries an announcement.
MeasureStartTick == lastOp.op = "tick" /\ lastOp.pos[3] = 0 /\ lastOp.pos[4] = 0
C33_MeasureAnnounced ==
    (MeasureStartTick /\ voiceEnabled /\ measureAnnouncementEnabled) => lastOp.said # "none"

\* C34: every stored song has a tempo within [60,200], at least one section, and
\* every section's measures within [1,32], after any saves, imports and deletes.
WellFormedSong(song) ==
    /\ song.tempo >= MinTempo /\ song.tempo <= MaxTempo
    /\ Len(song.sections) >= 1
    /\ \A i \in DOMAIN song.sections :
          song.sections[i] >= MeasuresFloor /\ song.sections[i] <= MeasuresCeiling
C34_StoredSongsWellFormed == \A id \in DOMAIN savedSongs : WellFormedSong(savedSongs[id])
C34_Witness ==
    /\ stOp.op = "import" /\ stOp.count = 2
    /\ \E id \in DOMAIN savedSongs :
          savedSongs[id].tempo = MaxTempo
          /\ savedSongs[id].sections = <<MeasuresFloor, MeasuresCeiling>>
    /\ \E id \in DOMAIN savedSongs : savedSongs[id].tempo = MinTempo

\* C35: playback of a valid song that has started leads to the completed state
\* (not playing, position at the origin) unless the user issues a further command.
Completed == ~isPlaying /\ Position = Origin
PlayingValidSong == isPlaying /\ ValidSections(sections)
UserCommanded == lastOp.op \in {"play", "pause"}
C35_SongCompletes == PlayingValidSong ~> (Completed \/ UserCommanded)

\* C36: with the subdivision held constant, an uninterrupted run from the origin
\* processes clicksPerBeat ticks per beat: the ticks processed so far are those of
\* the beats already played plus the subdivisions of the current beat, and the song
\* ends on tick 4 * clicksPerBeat * (sum of the sections' measures), not before.
RECURSIVE MeasuresBefore(_)
MeasuresBefore(n) == IF n = 0 THEN 0 ELSE MeasuresBefore(n - 1) + sections[n]
TicksOfSong == BeatsPerMeasure * ClicksPerBeat * MeasuresBefore(Len(sections))
TicksUpTo(pos) ==
    ((MeasuresBefore(pos[1]) + pos[2]) * BeatsPerMeasure + pos[3]) * ClicksPerBeat + pos[4]
C36_TicksPerSong ==
    (run.clean /\ Len(sections) > 0) =>
        /\ run.ends = 1 => run.ticks = TicksOfSong
        /\ run.ends = 0 => run.ticks < TicksOfSong /\ run.ticks = TicksUpTo(Position)
C36_Witness ==
    /\ run.clean /\ run.ends = 1 /\ amSubdivision = "triplet"
    /\ sections = <<2, 1>> /\ run.ticks = 36

\* C37: every active tick timer has the period computed from the current tempo and
\* the current subdivision, (60000 / tempo) / clicksPerBeat.
C37_TimerPeriodCurrent == \A h \in DOMAIN timers : timers[h] = getSubdivisionInterval(tempo)

\* C38: the subdivision recorded by SongManager equals the subdivision used by
\* AudioManager after every command.
C38_SubdivisionsAgree == subdivision = amSubdivision

\* C39: a saveSong that returns false leaves the in-memory collection savedSongs
\* exactly as it was before the call.
SaveSongFailed == stOp'.op = "saveSong" /\ ~stOp'.ok
C39_FailedSaveKeepsSongs == [][SaveSongFailed => savedSongs' = savedSongs]_vars

\* C40: an import in merge mode keeps every existing song under its id and
\* unchanged, stores a colliding imported song under an id that was free, and makes
\* the collection grow by exactly the number of valid imported songs.
MergeImport == stOp'.op = "import" /\ stOp'.ok /\ stOp'.merge
C40_MergeKeepsSongs ==
    [][MergeImport =>
          /\ \A id \in DOMAIN savedSongs :
                id \in DOMAIN savedSongs' /\ savedSongs'[id] = savedSongs[id]
          /\ Cardinality(DOMAIN savedSongs') = Cardinality(DOMAIN savedSongs) + stOp'.count]_vars
C40_Witness ==
    /\ stOp.op = "import" /\ stOp.merge /\ stOp.count = 2 /\ stOp.fresh >= 1
    /\ Cardinality(DOMAIN savedSongs) = 3
====
